---- MODULE Spec2Model ----
\* A model of src/fastapi/text_processor.py (class TextProcessor): index
\* provisioning, the indexing run process_nodes_and_store, search_similar,
\* generate_answer_from_chunks and search_and_answer.
\*
\* Python values are modelled as follows.  A str that is only carried around
\* is a TLA+ string.  None is NoneVal.  A node's content is a text without
\* separators, given by its length in characters; a slice of it is named by
\* Slice.  A str that json.loads may be applied to is a record
\* [form, fields, lit]: lit is the literal text, form is what a JSON parser
\* finds in it and fields the members of the object it denotes.
EXTENDS Integers, Sequences, FiniteSets, TLC

----------------------------------------------------------------------------
\* Bounds of the model.

MaxNodes == 2

MaxRuns == 2

----------------------------------------------------------------------------
\* Program constants.

ChunkSize == 1000

ChunkOverlap == 50

BatchSize == 50

IndexName == "pdf-embeddings"

NoneVal == "None"

NoError == "no error"

----------------------------------------------------------------------------
\* The state: an indexing run (process_nodes_and_store) and the index, a call
\* of search_similar, generate_answer_from_chunks or search_and_answer, and
\* the process with the backend's index list.

VARIABLES
    ipc,          \* position of the run
    nodes,        \* argument nodes
    pdf_id,       \* argument pdf_id
    node_idx,     \* loop variable of the node loop (0-based)
    chunks,       \* chunks of the current node
    chunk_idx,    \* loop variable of the chunk loop (0-based)
    vectors,      \* the batch buffer
    store,        \* the records of the Pinecone index
    calls,        \* upsert calls and sleeps of the run, in order
    embedCalls,   \* number of embedding calls of the run
    fault,        \* the exception of the run's failed remote call, NoError if none
    raised,       \* the exception the run raised to its caller
    runNo,        \* number of runs started
    firstRunIds   \* ids in the index when the first run had completed

ivars == <<ipc, nodes, pdf_id, node_idx, chunks, chunk_idx, vectors, store,
           calls, embedCalls, fault, raised, runNo, firstRunIds>>

VARIABLES
    qentry,           \* the method the caller called
    qpc,              \* position of the call
    query,            \* argument query
    top_k,            \* argument top_k
    filter_condition, \* argument filter_condition
    query_embedding,  \* the embedding of the query
    matches,          \* results.matches of the store's answer
    search_results,   \* the value search_similar returned
    g_chunks,         \* argument chunks of generate_answer_from_chunks
    completions,      \* number of completion requests issued
    gcalls,           \* number of calls of generate_answer_from_chunks
    qfault,           \* the exception of the call's failed remote call
    qfailed,          \* the method an exception came up in
    qraised,          \* the exception raised to the caller
    result            \* the value returned to the caller

qvars == <<qentry, qpc, query, top_k, filter_condition, query_embedding, matches,
           search_results, g_chunks, completions, gcalls, qfault, qfailed, qraised,
           result>>

VARIABLES
    ppc,               \* position of the process
    backend,           \* names of the indexes of the backend
    existing_indexes,  \* the list create_pinecone_index was given
    starts,            \* number of process starts
    createRequests,    \* number of create_index requests issued
    created,           \* number of times the backend created IndexName
    praised            \* the exception __init__ raised

pvars == <<ppc, backend, existing_indexes, starts, createRequests, created, praised>>

VARIABLES
    apc,               \* position of the question flow of the page
    folder_name,       \* the document of the question
    question,          \* the text of the question
    extracted_status,  \* st.session_state.extracted_status
    current_report,    \* st.session_state.current_report
    ask_result,        \* the value ask_question returns
    requests,          \* the requests the page sent, with their responses
    clicks,            \* number of clicks on the button
    extract_failed,    \* test_extract_pdf returned False in this click
    report_before      \* current_report when the button was clicked

avars == <<apc, folder_name, question, extracted_status, current_report,
           ask_result, requests, clicks, extract_failed, report_before>>

VARIABLES
    run,      \* two calls of process_nodes_and_store, each with its locals
    pstore,   \* the records of the index the two calls write to
    pstore0,  \* the records of the index before the two calls
    porder    \* the callers of the upsert calls, in order

cvars == <<run, pstore, pstore0, porder>>

vars == <<ivars, qvars, pvars, avars, cvars>>

----------------------------------------------------------------------------
\* The text splitter, RecursiveCharacterTextSplitter(chunk_size, chunk_overlap,
\* separators ending in ""), on a text of L characters that holds none of the
\* separators: the text is cut into single characters and merged greedily, a
\* chunk is closed when one more character would exceed chunk_size, and the
\* next chunk starts with the last chunk_overlap characters of the closed one.

\* A splitter that starts every chunk where the chunk before it ended.
StrideWithoutOverlap == ChunkSize

Stride == ChunkSize - ChunkOverlap

NumChunks(L) ==
    IF L = 0 THEN 0
    ELSE IF L <= ChunkSize THEN 1
    ELSE 1 + ((L - ChunkSize) + (Stride - 1)) \div Stride

Min(a, b) == IF a <= b THEN a ELSE b

SplitText(L) ==
    [k \in 1..NumChunks(L) |->
        [off |-> (k - 1) * Stride,
         len |-> Min(ChunkSize, L - (k - 1) * Stride)]]

\* The characters off .. off+len-1 of the separator-free text of L characters.
Slice(L, c) ==
    "text" \o ToString(L) \o "[" \o ToString(c.off) \o ":"
           \o ToString(c.off + c.len) \o "]"

----------------------------------------------------------------------------
\* json.dumps / json.loads on the node_info dictionary.

JsonLit(obj) ==
    "{\"page_num\": \"" \o obj.page_num \o "\", \"image_path\": \""
        \o obj.image_path \o "\", \"content\": \"" \o obj.content \o "\"}"

JsonDumps(obj) == [form |-> "object", fields |-> obj, lit |-> JsonLit(obj)]

\* The default of match.metadata.get("text", "{}").
EmptyObjectStr == [form |-> "object", fields |-> <<>>, lit |-> "{}"]

\* json.loads(s): a dict for an object, another Python value for any other
\* JSON document, JSONDecodeError for a str that is no JSON document and
\* TypeError for a value that is no str.
JsonLoads(s) ==
    CASE s.form = "object" -> [exc |-> NoError, dict |-> TRUE, val |-> s.fields]
      [] s.form = "array" -> [exc |-> NoError, dict |-> FALSE, val |-> <<>>]
      [] s.form = "malformed" -> [exc |-> "JSONDecodeError", dict |-> FALSE, val |-> <<>>]
      [] OTHER -> [exc |-> "TypeError", dict |-> FALSE, val |-> <<>>]

\* dict.get(key, default)
DictGet(d, key, default) == IF key \in DOMAIN d THEN d[key] ELSE default

----------------------------------------------------------------------------
\* Inputs of an indexing run.

NodeValues ==
    { [content |-> 0, page_num |-> "1", image_path |-> NoneVal],
      [content |-> 1, page_num |-> NoneVal, image_path |-> "img1.png"],
      [content |-> 2400, page_num |-> "2", image_path |-> "img2.png"],
      [content |-> 46600, page_num |-> "3", image_path |-> NoneVal],
      [content |-> 48500, page_num |-> NoneVal, image_path |-> NoneVal] }

RECURSIVE SeqsUpTo(_, _)
SeqsUpTo(S, n) ==
    IF n = 0 THEN {<<>>}
    ELSE LET shorter == SeqsUpTo(S, n - 1)
         IN  shorter \cup {Append(s, x) : s \in {t \in shorter : Len(t) = n - 1}, x \in S}

NodeLists == SeqsUpTo(NodeValues, MaxNodes)

PdfIds == {"doc1", "doc2"}

\* The store before the first run: empty, or holding an older record of doc2.
StaleRecord ==
    [id |-> "doc2_node0_chunk0", values |-> <<"stale">>,
     metadata |-> [pdf_id |-> "doc2", chunk_index |-> 0, node_index |-> 0,
                   text |-> JsonDumps([page_num |-> "9", image_path |-> "",
                                       content |-> "stale"])]]

PriorStores == {{}, {StaleRecord}}

\* Exceptions of the remote clients.
UpsertErrors == {"PineconeApiException"}

\* Responses of the embedding endpoint to embeddings.create(input=[text], ...):
\* the call raises, or answers with a list of entries, each holding a vector.
\* The vector of a text is named after the text and the input type.
VectorOf(text, input_type) == <<input_type \o ":" \o text>>

EmbedResponses(text, input_type) ==
    { [exc |-> "APIConnectionError", data |-> <<>>],
      [exc |-> NoError, data |-> <<>>],
      [exc |-> NoError, data |-> <<[embedding |-> <<>>]>>],
      [exc |-> NoError, data |-> <<[embedding |-> VectorOf(text, input_type)]>>] }

\* The responses taken in the runs explored: the empty vector, which
\* create_embedding hands on like any other, is left to EmbedResponses.
RunEmbedResponses(text, input_type) ==
    {r \in EmbedResponses(text, input_type) :
        r.data = <<>> \/ r.data[1].embedding # <<>>}

\* create_embedding: the vector of the first entry of the response; an
\* exception of the call, or of response.data[0], is logged and re-raised.
CreateEmbedding(resp) ==
    IF resp.exc # NoError THEN [exc |-> resp.exc, val |-> <<>>]
    ELSE IF Len(resp.data) = 0 THEN [exc |-> "IndexError", val |-> <<>>]
    ELSE [exc |-> NoError, val |-> resp.data[1].embedding]

----------------------------------------------------------------------------
\* process_nodes_and_store, one action per remote call and per loop head.

\* An id that leaves the document out.
VectorIdWithoutPdf(pid, n, c) == "node" \o ToString(n) \o "_chunk" \o ToString(c)

\* An id that leaves the node index out.
VectorIdWithoutNode(pid, n, c) == pid \o "_chunk" \o ToString(c)

VectorId(pid, n, c) ==
    pid \o "_node" \o ToString(n) \o "_chunk" \o ToString(c)

\* A node_info that stores page_num and image_path as they are, None included.
NodeInfoKeepsNone(node, chunk) ==
    [page_num |-> node.page_num,
     image_path |-> node.image_path,
     content |-> Slice(node.content, chunk)]

NodeInfo(node, chunk) ==
    [page_num |-> IF node.page_num # NoneVal THEN node.page_num ELSE "",
     image_path |-> IF node.image_path # NoneVal THEN node.image_path ELSE "",
     content |-> Slice(node.content, chunk)]

MakeVector(pid, n, c, node, chunk, embedding) ==
    [id |-> VectorId(pid, n, c),
     values |-> embedding,
     metadata |-> [pdf_id |-> pid, chunk_index |-> c, node_index |-> n,
                   text |-> JsonDumps(NodeInfo(node, chunk))]]

\* index.upsert(vectors=vecs): a record replaces the record of the same id.
Upsert(st, vecs) ==
    LET new == {vecs[i] : i \in 1..Len(vecs)}
    IN  {r \in st : \A v \in new : v.id # r.id} \cup new

Prefix(s, k) == SubSeq(s, 1, k)

\* An exception as its catcher sees it: the type the raiser gave it and the
\* identifiers (as "key=value") the code attached on the way up.
Exc(type, context) == [type |-> type, context |-> context]

NoExc == Exc(NoError, {})

\* A handler that logs the exception and goes on with the next chunk.
IndexHandlerSkips(e) == [pc |-> "sleep", raised |-> NoExc]

\* A handler that logs the exception and lets the run end as a success.
IndexHandlerSwallows(e) == [pc |-> "done", raised |-> NoExc]

\* The except clause of process_nodes_and_store: log str(e), then re-raise e.
IndexHandler(e) == [pc |-> "failed", raised |-> Exc(e, {})]

\* The buffer after a full batch was upserted.
AfterBatch(vecs) == <<>>

\* The buffer after the remaining vectors of a node were upserted.
AfterRest(vecs) == vecs

\* A test that never sends the remaining vectors.
HasRestNever(vecs) == FALSE

\* if vectors: the test that starts the upsert of the remaining vectors.
HasRest(vecs) == vecs # <<>>

\* A test that lets the buffer grow past the batch size.
BatchFullOffByOne(vecs) == Len(vecs) > BatchSize

\* The test that starts a batch upsert.
BatchFull(vecs) == Len(vecs) >= BatchSize

UpsertEvent(vecs, ok) ==
    [op |-> "upsert", n |-> Len(vecs), first |-> vecs[1].id,
     last |-> vecs[Len(vecs)].id, ok |-> ok]

SleepEvent == [op |-> "sleep", n |-> 0, first |-> "", last |-> "", ok |-> TRUE]

Begin(ns, pid) ==
    /\ ipc' = "node"
    /\ nodes' = ns
    /\ pdf_id' = pid
    /\ node_idx' = 0
    /\ chunks' = <<>>
    /\ chunk_idx' = 0
    /\ vectors' = <<>>
    /\ calls' = <<>>
    /\ embedCalls' = 0
    /\ fault' = NoError
    /\ raised' = NoExc
    /\ runNo' = runNo + 1
    /\ UNCHANGED store

\* A first call process_nodes_and_store(ns, pid).
IndexStart ==
    /\ ipc = "idle"
    /\ runNo < MaxRuns
    /\ \E ns \in NodeLists, pid \in PdfIds : Begin(ns, pid)
    /\ UNCHANGED firstRunIds
    /\ UNCHANGED <<qvars, pvars, avars, cvars>>

\* The same call again, after the run before it returned.
Reindex ==
    /\ ipc = "done"
    /\ runNo < MaxRuns
    /\ Begin(nodes, pdf_id)
    /\ firstRunIds' = IF runNo = 1 THEN {r.id : r \in store} ELSE firstRunIds
    /\ UNCHANGED <<qvars, pvars, avars, cvars>>

\* for node_idx, node in enumerate(nodes): ... split_text(content)
NodeLoop ==
    /\ ipc = "node"
    /\ IF node_idx < Len(nodes)
       THEN /\ chunks' = SplitText(nodes[node_idx + 1].content)
            /\ chunk_idx' = 0
            /\ ipc' = "chunk"
       ELSE /\ ipc' = "done"
            /\ UNCHANGED <<chunks, chunk_idx>>
    /\ UNCHANGED <<nodes, pdf_id, node_idx, vectors, store, calls, embedCalls,
                   fault, raised, runNo, firstRunIds>>
    /\ UNCHANGED <<qvars, pvars, avars, cvars>>

\* for chunk_idx, chunk in enumerate(chunks): create_embedding(chunk) and
\* vectors.append(...), up to the test of the batch size.
EmbedChunk ==
    /\ ipc = "chunk"
    /\ chunk_idx < Len(chunks)
    /\ LET node == nodes[node_idx + 1]
           chunk == chunks[chunk_idx + 1]
       IN  \E resp \in RunEmbedResponses(Slice(node.content, chunk), "passage") :
             LET emb == CreateEmbedding(resp)
             IN  IF emb.exc # NoError
                 THEN /\ fault' = emb.exc
                      /\ ipc' = IndexHandler(emb.exc).pc
                      /\ raised' = IndexHandler(emb.exc).raised
                      /\ UNCHANGED <<vectors, chunk_idx>>
                 ELSE LET vecs == Append(vectors,
                                         MakeVector(pdf_id, node_idx, chunk_idx,
                                                    node, chunk, emb.val))
                      IN  /\ vectors' = vecs
                          /\ UNCHANGED <<fault, raised>>
                          /\ IF BatchFull(vecs)
                             THEN ipc' = "upsert_batch" /\ UNCHANGED chunk_idx
                             ELSE ipc' = "chunk" /\ chunk_idx' = chunk_idx + 1
    /\ embedCalls' = embedCalls + 1
    /\ UNCHANGED <<nodes, pdf_id, node_idx, chunks, store, calls, runNo, firstRunIds>>
    /\ UNCHANGED <<qvars, pvars, avars, cvars>>

\* self.index.upsert(vectors=vectors); vectors = []  (the batch of 50)
UpsertBatch ==
    /\ ipc = "upsert_batch"
    /\ \/ /\ store' = Upsert(store, vectors)
          /\ calls' = Append(calls, UpsertEvent(vectors, TRUE))
          /\ vectors' = AfterBatch(vectors)
          /\ ipc' = "sleep"
          /\ UNCHANGED <<fault, raised>>
       \/ \E e \in UpsertErrors, k \in {0, Len(vectors)} :
          /\ store' = Upsert(store, Prefix(vectors, k))
          /\ calls' = Append(calls, UpsertEvent(vectors, FALSE))
          /\ vectors' = vectors
          /\ fault' = e
          /\ ipc' = IndexHandler(e).pc
          /\ raised' = IndexHandler(e).raised
    /\ UNCHANGED <<nodes, pdf_id, node_idx, chunks, chunk_idx, embedCalls,
                   runNo, firstRunIds>>
    /\ UNCHANGED <<qvars, pvars, avars, cvars>>

\* time.sleep(0.5)
Sleep ==
    /\ ipc = "sleep"
    /\ calls' = Append(calls, SleepEvent)
    /\ ipc' = "chunk"
    /\ chunk_idx' = chunk_idx + 1
    /\ UNCHANGED <<nodes, pdf_id, node_idx, chunks, vectors, store, embedCalls,
                   fault, raised, runNo, firstRunIds>>
    /\ UNCHANGED <<qvars, pvars, avars, cvars>>

\* The chunk loop is exhausted: if vectors: self.index.upsert(vectors=vectors)
UpsertRest ==
    /\ ipc = "chunk"
    /\ chunk_idx = Len(chunks)
    /\ IF HasRest(vectors)
       THEN \/ /\ store' = Upsert(store, vectors)
               /\ calls' = Append(calls, UpsertEvent(vectors, TRUE))
               /\ vectors' = AfterRest(vectors)
               /\ ipc' = "node"
               /\ node_idx' = node_idx + 1
               /\ UNCHANGED <<fault, raised>>
            \/ \E e \in UpsertErrors, k \in {0, Len(vectors)} :
               /\ store' = Upsert(store, Prefix(vectors, k))
               /\ calls' = Append(calls, UpsertEvent(vectors, FALSE))
               /\ vectors' = vectors
               /\ fault' = e
               /\ ipc' = IndexHandler(e).pc
               /\ raised' = IndexHandler(e).raised
               /\ UNCHANGED node_idx
       ELSE /\ ipc' = "node"
            /\ node_idx' = node_idx + 1
            /\ UNCHANGED <<store, calls, vectors, fault, raised>>
    /\ UNCHANGED <<nodes, pdf_id, chunks, chunk_idx, embedCalls, runNo, firstRunIds>>
    /\ UNCHANGED <<qvars, pvars, avars, cvars>>

IndexNext ==
    \/ IndexStart
    \/ Reindex
    \/ NodeLoop
    \/ EmbedChunk
    \/ UpsertBatch
    \/ Sleep
    \/ UpsertRest

----------------------------------------------------------------------------
\* The store's answers to index.query and the inputs of the query methods.

MaxTopK == 2

MaxSynth == 2

Queries == {"what is X?"}

Filters == {NoneVal, "doc1"}

QueryErrors == {"PineconeApiException"}

CompletionErrors == {"APIConnectionError"}

\* The str values found under "text" in the metadata of a match.
FullObjectStr ==
    JsonDumps([page_num |-> "2", image_path |-> "img2.png", content |-> "text2400[0:1000]"])

EmptyStr == [form |-> "malformed", fields |-> <<>>, lit |-> ""]

MalformedStr == [form |-> "malformed", fields |-> <<>>, lit |-> "{\"page_num\": 2,"]

ArrayStr == [form |-> "array", fields |-> <<>>, lit |-> "[1, 2]"]

NotAStr == [form |-> "number", fields |-> <<>>, lit |-> "7"]

TextValues == {FullObjectStr, EmptyObjectStr, MalformedStr, ArrayStr, NotAStr}

Scores == {1, 2}

\* Matches of the store: a score and the metadata of the record, with or
\* without the "text" member.
MatchValues ==
    {[score |-> sc, metadata |-> [pdf_id |-> "doc1", chunk_index |-> 0, text |-> t]] :
        sc \in Scores, t \in TextValues}
    \cup {[score |-> sc, metadata |-> [pdf_id |-> "doc1", chunk_index |-> 1]] : sc \in Scores}
    \cup {[score |-> 1, metadata |-> [pdf_id |-> "doc2", chunk_index |-> 2, text |-> FullObjectStr]]}

PassesFilter(match, f) == f = NoneVal \/ match.metadata.pdf_id = f

\* index.query(vector, top_k, filter, include_metadata=True): at most top_k
\* matches, all of them passing the filter.
QueryResponses(k, f) ==
    SeqsUpTo({m \in MatchValues : PassesFilter(m, f)}, k)

\* The texts the completion endpoint answers with.
InsufficientContext == "the context is insufficient to answer"

CompletionTexts == {"an answer citing the context", "an answer from outside the context",
                    InsufficientContext}

\* A Python value handed between the methods: a list, a str, a dict or None.
PyList(items) == [py |-> "list", val |-> items]

PyStr(text) == [py |-> "str", val |-> text]

PyDict(d) == [py |-> "dict", val |-> d]

PyNone == [py |-> "None", val |-> <<>>]

----------------------------------------------------------------------------
\* search_similar, generate_answer_from_chunks and search_and_answer.

\* A loop body without the inner except clause: JSONDecodeError leaves the loop.
FormatMatchNoFallback(match) ==
    LET md == match.metadata
        loaded == JsonLoads(DictGet(md, "text", EmptyObjectStr))
    IN  IF loaded.exc # NoError
        THEN [exc |-> loaded.exc, val |-> <<>>]
        ELSE IF ~loaded.dict
        THEN [exc |-> "AttributeError", val |-> <<>>]
        ELSE [exc |-> NoError,
              val |-> [score |-> match.score,
                       pdf_id |-> DictGet(md, "pdf_id", NoneVal),
                       chunk_index |-> DictGet(md, "chunk_index", -1),
                       page_num |-> DictGet(loaded.val, "page_num", ""),
                       image_path |-> DictGet(loaded.val, "image_path", ""),
                       content |-> DictGet(loaded.val, "content", "")]]

\* One match of the loop of search_similar: the result appended for it, or the
\* exception that leaves the loop.
FormatMatch(match) ==
    LET md == match.metadata
        loaded == JsonLoads(DictGet(md, "text", EmptyObjectStr))
    IN  IF loaded.exc = "JSONDecodeError"
        THEN [exc |-> NoError,
              val |-> [score |-> match.score,
                       pdf_id |-> DictGet(md, "pdf_id", NoneVal),
                       chunk_index |-> DictGet(md, "chunk_index", -1),
                       page_num |-> "",
                       image_path |-> "",
                       content |-> DictGet(md, "text", EmptyStr).lit]]
        ELSE IF loaded.exc # NoError
        THEN [exc |-> loaded.exc, val |-> <<>>]
        ELSE IF ~loaded.dict
        THEN [exc |-> "AttributeError", val |-> <<>>]
        ELSE [exc |-> NoError,
              val |-> [score |-> match.score,
                       pdf_id |-> DictGet(md, "pdf_id", NoneVal),
                       chunk_index |-> DictGet(md, "chunk_index", -1),
                       page_num |-> DictGet(loaded.val, "page_num", ""),
                       image_path |-> DictGet(loaded.val, "image_path", ""),
                       content |-> DictGet(loaded.val, "content", "")]]

\* The loop of search_similar over results.matches.
RECURSIVE FormatLoop(_, _, _)
FormatLoop(ms, i, formatted_results) ==
    IF i > Len(ms) THEN [exc |-> NoError, val |-> formatted_results]
    ELSE LET one == FormatMatch(ms[i])
         IN  IF one.exc # NoError THEN [exc |-> one.exc, val |-> <<>>]
             ELSE FormatLoop(ms, i + 1, Append(formatted_results, one.val))

\* A loop that inserts every result at the front of the list.
FormatResultsReversed(ms) ==
    LET fr == FormatLoop(ms, 1, <<>>)
    IN  [exc |-> fr.exc,
         val |-> [i \in 1..Len(fr.val) |-> fr.val[Len(fr.val) + 1 - i]]]

FormatResults(ms) == FormatLoop(ms, 1, <<>>)

\* A handler that logs the exception and returns an empty list.
SearchHandlerReturnsEmpty(e) ==
    [pc |-> "returned", raised |-> NoExc, result |-> [py |-> "list", val |-> <<>>]]

\* The except clause of search_similar: log, then re-raise e.
SearchHandler(e) == [pc |-> "failed", raised |-> Exc(e, {}), result |-> PyNone]

\* The except clause of search_and_answer: log, then re-raise e.
AnswerHandler(e) == [pc |-> "failed", raised |-> Exc(e, {}), result |-> PyNone]

\* A handler that sends the request again instead of raising.
GenerateHandlerRetries(e) ==
    [pc |-> "complete", raised |-> NoExc, result |-> [py |-> "None", val |-> <<>>]]

\* The except clause of generate_answer_from_chunks: log, then re-raise e.
GenerateHandler(e) == [pc |-> "failed", raised |-> Exc(e, {}), result |-> PyNone]

\* An exception of search_similar or of generate_answer_from_chunks reaches
\* the caller through the handler of search_and_answer when that was called.
Raise(h) ==
    IF qentry = "search_and_answer" THEN AnswerHandler(h.raised.type) ELSE h

\* search_results.matches, and the list built from it, in search_and_answer:
\* a list has no attribute matches.
ExtractChunks(sr) ==
    IF sr.py = "QueryResponse"
    THEN [exc |-> NoError, val |-> sr.val]
    ELSE [exc |-> "AttributeError", val |-> <<>>]

\* The context of generate_answer_from_chunks: chunk['metadata']['text'] of
\* every chunk, numbered from 1.
RECURSIVE ContextLoop(_, _, _)
ContextLoop(cs, i, parts) ==
    IF i > Len(cs) THEN [exc |-> NoError, val |-> parts]
    ELSE IF "text" \notin DOMAIN cs[i].metadata
    THEN [exc |-> "KeyError", val |-> <<>>]
    ELSE ContextLoop(cs, i + 1,
                     Append(parts, "Chunk " \o ToString(i) \o ":\n" \o cs[i].metadata.text.lit))

Context(cs) == ContextLoop(cs, 1, <<>>)

\* The value generate_answer_from_chunks returns for the text of the
\* completion.
GenerateReturn(cs, text) == text

\* The dictionary search_and_answer returns.
AnswerDict(q, answer, cs) ==
    [query |-> q, answer |-> answer, supporting_chunks |-> cs, total_chunks |-> Len(cs)]

\* search_similar(q, k, f), called by the application.
SearchStart ==
    /\ qpc = "idle"
    /\ \E q \in Queries, k \in 1..MaxTopK, f \in Filters :
         /\ query' = q
         /\ top_k' = k
         /\ filter_condition' = f
    /\ qentry' = "search_similar"
    /\ qpc' = "embed"
    /\ UNCHANGED <<query_embedding, matches, search_results, g_chunks, completions,
                   gcalls, qfault, qfailed, qraised, result>>
    /\ UNCHANGED <<ivars, pvars, avars, cvars>>

\* search_and_answer(q, k), called by the application: it calls
\* search_similar(query, top_k).
AnswerStart ==
    /\ qpc = "idle"
    /\ \E q \in Queries, k \in 1..MaxTopK :
         /\ query' = q
         /\ top_k' = k
    /\ filter_condition' = NoneVal
    /\ qentry' = "search_and_answer"
    /\ qpc' = "embed"
    /\ UNCHANGED <<query_embedding, matches, search_results, g_chunks, completions,
                   gcalls, qfault, qfailed, qraised, result>>
    /\ UNCHANGED <<ivars, pvars, avars, cvars>>

\* generate_answer_from_chunks(q, cs), called by the application.
GenerateStart ==
    /\ qpc = "idle"
    /\ \E q \in Queries, cs \in SeqsUpTo(MatchValues, MaxTopK) :
         /\ query' = q
         /\ g_chunks' = cs
    /\ qentry' = "generate_answer_from_chunks"
    /\ qpc' = "complete"
    /\ gcalls' = gcalls + 1
    /\ UNCHANGED <<top_k, filter_condition, query_embedding, matches, search_results,
                   completions, qfault, qfailed, qraised, result>>
    /\ UNCHANGED <<ivars, pvars, avars, cvars>>

\* query_embedding = self.create_embedding(query, input_type='query')
SearchEmbed ==
    /\ qpc = "embed"
    /\ \E resp \in EmbedResponses(query, "query") :
         LET emb == CreateEmbedding(resp)
             h == Raise(SearchHandler(emb.exc))
         IN  IF emb.exc # NoError
             THEN /\ qfault' = emb.exc
                  /\ qfailed' = "search_similar"
                  /\ qpc' = h.pc
                  /\ qraised' = h.raised
                  /\ result' = h.result
                  /\ UNCHANGED query_embedding
             ELSE /\ query_embedding' = emb.val
                  /\ qpc' = "query"
                  /\ UNCHANGED <<qfault, qfailed, qraised, result>>
    /\ UNCHANGED <<qentry, query, top_k, filter_condition, matches, search_results,
                   g_chunks, completions, gcalls>>
    /\ UNCHANGED <<ivars, pvars, avars, cvars>>

\* results = self.index.query(vector, top_k, filter, include_metadata=True)
SearchQuery ==
    /\ qpc = "query"
    /\ \/ \E ms \in QueryResponses(top_k, filter_condition) :
            /\ matches' = ms
            /\ qpc' = "format"
            /\ UNCHANGED <<qfault, qfailed, qraised, result>>
       \/ \E e \in QueryErrors :
            LET h == Raise(SearchHandler(e))
            IN  /\ qfault' = e
                /\ qfailed' = "search_similar"
                /\ qpc' = h.pc
                /\ qraised' = h.raised
                /\ result' = h.result
                /\ UNCHANGED matches
    /\ UNCHANGED <<qentry, query, top_k, filter_condition, query_embedding,
                   search_results, g_chunks, completions, gcalls>>
    /\ UNCHANGED <<ivars, pvars, avars, cvars>>

\* The loop over results.matches and return formatted_results.
SearchFormat ==
    /\ qpc = "format"
    /\ LET fr == FormatResults(matches)
           h == Raise(SearchHandler(fr.exc))
       IN  IF fr.exc # NoError
           THEN /\ qfailed' = "search_similar"
                /\ qpc' = h.pc
                /\ qraised' = h.raised
                /\ result' = h.result
                /\ UNCHANGED search_results
           ELSE /\ search_results' = PyList(fr.val)
                /\ IF qentry = "search_and_answer"
                   THEN qpc' = "extract" /\ UNCHANGED result
                   ELSE qpc' = "returned" /\ result' = PyList(fr.val)
                /\ UNCHANGED <<qfailed, qraised>>
    /\ UNCHANGED <<qentry, query, top_k, filter_condition, query_embedding, matches,
                   g_chunks, completions, gcalls, qfault>>
    /\ UNCHANGED <<ivars, pvars, avars, cvars>>

\* chunks = [{"score": ..., "metadata": ...} for match in search_results.matches]
AnswerExtract ==
    /\ qpc = "extract"
    /\ LET ex == ExtractChunks(search_results)
           h == AnswerHandler(ex.exc)
       IN  IF ex.exc # NoError
           THEN /\ qfailed' = "search_and_answer"
                /\ qpc' = h.pc
                /\ qraised' = h.raised
                /\ result' = h.result
                /\ UNCHANGED <<g_chunks, gcalls>>
           ELSE /\ g_chunks' = ex.val
                /\ gcalls' = gcalls + 1
                /\ qpc' = "complete"
                /\ UNCHANGED <<qfailed, qraised, result>>
    /\ UNCHANGED <<qentry, query, top_k, filter_condition, query_embedding, matches,
                   search_results, completions, qfault>>
    /\ UNCHANGED <<ivars, pvars, avars, cvars>>

\* generate_answer_from_chunks(query, chunks) called once more by the
\* application, with the arguments of the call that has ended.
GenerateAgain ==
    /\ qentry = "generate_answer_from_chunks"
    /\ qpc \in {"returned", "failed"}
    /\ gcalls < MaxSynth
    /\ gcalls' = gcalls + 1
    /\ qpc' = "complete"
    /\ qfault' = NoError
    /\ qfailed' = "none"
    /\ qraised' = NoExc
    /\ result' = PyNone
    /\ UNCHANGED <<qentry, query, top_k, filter_condition, query_embedding, matches,
                   search_results, g_chunks, completions>>
    /\ UNCHANGED <<ivars, pvars, avars, cvars>>

\* generate_answer_from_chunks: the context, the prompt, the completion
\* request chat.completions.create(...) and the return of its text.
Complete ==
    /\ qpc = "complete"
    /\ LET ctx == Context(g_chunks)
       IN  IF ctx.exc # NoError
           THEN LET h == Raise(GenerateHandler(ctx.exc))
                IN  /\ qfailed' = "generate_answer_from_chunks"
                    /\ qpc' = h.pc
                    /\ qraised' = h.raised
                    /\ result' = h.result
                    /\ UNCHANGED <<completions, qfault>>
           ELSE /\ completions' = completions + 1
                /\ \/ \E text \in CompletionTexts :
                        LET answer == GenerateReturn(g_chunks, text)
                        IN  /\ qpc' = "returned"
                            /\ result' = IF qentry = "search_and_answer"
                                         THEN PyDict(AnswerDict(query, answer, g_chunks))
                                         ELSE PyStr(answer)
                            /\ UNCHANGED <<qfault, qfailed, qraised>>
                   \/ \E e \in CompletionErrors :
                        LET h == Raise(GenerateHandler(e))
                        IN  /\ qfault' = e
                            /\ qfailed' = "generate_answer_from_chunks"
                            /\ qpc' = h.pc
                            /\ qraised' = h.raised
                            /\ result' = h.result
    /\ UNCHANGED <<qentry, query, top_k, filter_condition, query_embedding, matches,
                   search_results, g_chunks, gcalls>>
    /\ UNCHANGED <<ivars, pvars, avars, cvars>>

QueryNext ==
    \/ SearchStart
    \/ AnswerStart
    \/ GenerateStart
    \/ SearchEmbed
    \/ SearchQuery
    \/ SearchFormat
    \/ AnswerExtract
    \/ GenerateAgain
    \/ Complete

----------------------------------------------------------------------------
\* Process starts: TextProcessor.__init__ calls create_pinecone_index, which
\* lists the indexes of the backend and creates IndexName when the list does
\* not hold it.  The backend is shared with clients that create and delete
\* other indexes; nobody deletes IndexName.

MaxStarts == 3

OtherIndexes == {"notes", "images"}

ProvisionErrors == {"PineconeApiException"}

\* A test that is always true: the index is created at every start.
IndexAbsentAlways(name, existing) == TRUE

\* if self.index_name not in existing_indexes
IndexAbsent(name, existing) == name \notin existing

\* The except clause of create_pinecone_index: log, then re-raise e.
ProvisionHandler(e) == [pc |-> "crashed", raised |-> Exc(e, {})]

\* A process is started and __init__ reaches create_pinecone_index.
ProcessStart ==
    /\ ppc = "down"
    /\ starts < MaxStarts
    /\ starts' = starts + 1
    /\ ppc' = "list"
    /\ praised' = NoExc
    /\ UNCHANGED <<backend, existing_indexes, createRequests, created>>
    /\ UNCHANGED <<ivars, qvars, avars, cvars>>

\* existing_indexes = self.pc.list_indexes().names()
ListIndexes ==
    /\ ppc = "list"
    /\ \/ /\ existing_indexes' = backend
          /\ ppc' = "listed"
          /\ UNCHANGED praised
       \/ \E e \in ProvisionErrors :
          /\ ppc' = ProvisionHandler(e).pc
          /\ praised' = ProvisionHandler(e).raised
          /\ UNCHANGED existing_indexes
    /\ UNCHANGED <<backend, starts, createRequests, created>>
    /\ UNCHANGED <<ivars, qvars, avars, cvars>>

\* self.pc.create_index(name=self.index_name, ...): the backend creates the
\* index unless it has one of that name; a request that raises may have
\* created it all the same.
CreateIndex ==
    /\ ppc = "listed"
    /\ IndexAbsent(IndexName, existing_indexes)
    /\ createRequests' = createRequests + 1
    /\ \/ /\ IndexName \notin backend
          /\ backend' = backend \cup {IndexName}
          /\ created' = created + 1
          /\ ppc' = "up"
          /\ UNCHANGED praised
       \/ \E e \in ProvisionErrors, done \in {b \in BOOLEAN : b => IndexName \notin backend} :
          /\ backend' = IF done THEN backend \cup {IndexName} ELSE backend
          /\ created' = IF done THEN created + 1 ELSE created
          /\ ppc' = ProvisionHandler(e).pc
          /\ praised' = ProvisionHandler(e).raised
    /\ UNCHANGED <<existing_indexes, starts>>
    /\ UNCHANGED <<ivars, qvars, avars, cvars>>

\* The else branch: the index exists and is used.
UseExisting ==
    /\ ppc = "listed"
    /\ ~IndexAbsent(IndexName, existing_indexes)
    /\ ppc' = "up"
    /\ UNCHANGED <<backend, existing_indexes, starts, createRequests, created, praised>>
    /\ UNCHANGED <<ivars, qvars, avars, cvars>>

\* The process ends, after the exception of __init__ or later.
ProcessExit ==
    /\ ppc \in {"up", "crashed"}
    /\ ppc' = "down"
    /\ UNCHANGED <<backend, existing_indexes, starts, createRequests, created, praised>>
    /\ UNCHANGED <<ivars, qvars, avars, cvars>>

\* Another client of the backend creates or deletes one of the other indexes.
OtherClient ==
    /\ \E n \in OtherIndexes :
         backend' = IF n \in backend THEN backend \ {n} ELSE backend \cup {n}
    /\ UNCHANGED <<ppc, existing_indexes, starts, createRequests, created, praised>>
    /\ UNCHANGED <<ivars, qvars, avars, cvars>>

ProvisionNext ==
    \/ ProcessStart
    \/ ListIndexes
    \/ CreateIndex
    \/ UseExisting
    \/ ProcessExit
    \/ OtherClient

----------------------------------------------------------------------------
\* The question flow of the page: the button of show, ask_question,
\* test_extract_pdf and process_query, one action per request.

MaxClicks == 3

Folders == {"report-a", "report-b"}

\* The text area of the question: empty, or a question.
Questions == {"", "what is the outlook?"}

\* Responses to POST /pdfs/{name}/test-extract: the request raises, or is
\* answered with a status code and a JSON body with a member "status".
TestExtractResponses ==
    { [raises |-> TRUE, status_code |-> 0, status |-> ""],
      [raises |-> FALSE, status_code |-> 200, status |-> "success"],
      [raises |-> FALSE, status_code |-> 200, status |-> "error"],
      [raises |-> FALSE, status_code |-> 500, status |-> ""] }

\* Responses to POST /pdfs/{name}/search-and-process.
SearchProcessResponses ==
    { [raises |-> TRUE, status_code |-> 0, status |-> ""],
      [raises |-> FALSE, status_code |-> 200, status |-> "success"],
      [raises |-> FALSE, status_code |-> 200, status |-> "error"],
      [raises |-> FALSE, status_code |-> 500, status |-> ""] }

\* None, as the value of current_report and of ask_question.
AppNone == [py |-> "None", status |-> "", doc |-> "", n |-> 0]

\* The JSON body of the n-th click's answer on document f.
AppReport(status, f, n) == [py |-> "dict", status |-> status, doc |-> f, n |-> n]

\* extracted_status = {}
EmptyDict == [f \in {} |-> TRUE]

\* extracted_status.get(f, False)
StatusGet(es, f) == IF f \in DOMAIN es THEN es[f] ELSE FALSE

\* extracted_status[f] = True
StatusSet(es, f) == [g \in DOMAIN es \cup {f} |-> IF g = f THEN TRUE ELSE es[g]]

\* A test that takes every answer with status code 200 for a success.
ExtractOkAny200(resp) == ~resp.raises /\ resp.status_code = 200

\* test_extract_pdf: status_code == 200 and result.get("status") == "success"
ExtractOk(resp) ==
    ~resp.raises /\ resp.status_code = 200 /\ resp.status = "success"

\* process_query: response.json() for status code 200, None otherwise.
QueryReturn(resp, f, n) ==
    IF resp.raises \/ resp.status_code # 200
    THEN AppNone
    ELSE AppReport(resp.status, f, n)

\* if result and result.get("status") == "success"
ReportOk(res) == res.py = "dict" /\ res.status = "success"

\* show: the button is clicked; with a question, ask_question tests
\* extracted_status.get(folder_name, False).
Click ==
    /\ apc = "idle"
    /\ clicks < MaxClicks
    /\ \E q \in Questions, f \in Folders :
         /\ question' = q
         /\ folder_name' = f
         /\ apc' = IF q = "" THEN "idle"
                   ELSE IF StatusGet(extracted_status, f) THEN "query"
                   ELSE "extract"
    /\ clicks' = clicks + 1
    /\ ask_result' = AppNone
    /\ extract_failed' = FALSE
    /\ report_before' = current_report
    /\ UNCHANGED <<extracted_status, current_report, requests>>
    /\ UNCHANGED <<ivars, qvars, pvars, cvars>>

\* test_extract_pdf(folder_name), and ask_question's return None when it
\* returns False.
TestExtract ==
    /\ apc = "extract"
    /\ \E resp \in TestExtractResponses :
         /\ requests' = Append(requests, [op |-> "extract", doc |-> folder_name,
                                          resp |-> resp])
         /\ IF ExtractOk(resp)
            THEN /\ extracted_status' = StatusSet(extracted_status, folder_name)
                 /\ apc' = "query"
                 /\ UNCHANGED extract_failed
            ELSE /\ apc' = "show"
                 /\ extract_failed' = TRUE
                 /\ UNCHANGED extracted_status
    /\ UNCHANGED <<folder_name, question, current_report, ask_result, clicks,
                   report_before>>
    /\ UNCHANGED <<ivars, qvars, pvars, cvars>>

\* process_query(query, folder_name, top_k), whose value ask_question returns.
ProcessQuery ==
    /\ apc = "query"
    /\ \E resp \in SearchProcessResponses :
         /\ requests' = Append(requests, [op |-> "query", doc |-> folder_name,
                                          resp |-> resp])
         /\ ask_result' = QueryReturn(resp, folder_name, clicks)
    /\ apc' = "show"
    /\ UNCHANGED <<folder_name, question, extracted_status, current_report, clicks,
                   extract_failed, report_before>>
    /\ UNCHANGED <<ivars, qvars, pvars, cvars>>

\* show: st.session_state.current_report = result, for a successful result.
ShowReport ==
    /\ apc = "show"
    /\ current_report' = IF ReportOk(ask_result) THEN ask_result ELSE current_report
    /\ apc' = "idle"
    /\ UNCHANGED <<folder_name, question, extracted_status, ask_result, requests,
                   clicks, extract_failed, report_before>>
    /\ UNCHANGED <<ivars, qvars, pvars, cvars>>

AppNext ==
    \/ Click
    \/ TestExtract
    \/ ProcessQuery
    \/ ShowReport

----------------------------------------------------------------------------
\* Two calls of process_nodes_and_store at a time, for two documents, on one
\* index: the steps of a call are those of the single run, on the call's own
\* locals.

Runs == {1, 2}

Other(r) == CHOOSE o \in Runs : o # r

NodeOf(len) == CHOOSE v \in NodeValues : v.content = len

\* The node lists of the two calls: one node of 51 chunks, or a node of one
\* chunk and a node of three.
PairNodeLists == {<<NodeOf(48500)>>, <<NodeOf(1), NodeOf(2400)>>}

\* A call not yet made; written is the set of records its upserts wrote.
IdleRun ==
    [pc |-> "idle", nodes |-> <<>>, pdf_id |-> "", node_idx |-> 0, chunks |-> <<>>,
     chunk_idx |-> 0, vectors |-> <<>>, raised |-> NoExc, written |-> {}]

AsSet(vecs) == {vecs[i] : i \in 1..Len(vecs)}

\* process_nodes_and_store(ns, pid) is called: vectors = []
PairCall ==
    /\ \E r \in Runs, ns \in PairNodeLists, pid \in PdfIds :
         /\ run[r].pc = "idle"
         /\ run[Other(r)].pdf_id # pid
         /\ run' = [run EXCEPT ![r] = [IdleRun EXCEPT !.pc = "node", !.nodes = ns,
                                                      !.pdf_id = pid]]
    /\ UNCHANGED <<pstore, pstore0, porder>>
    /\ UNCHANGED <<ivars, qvars, pvars, avars>>

\* for node_idx, node in enumerate(nodes): ... split_text(content)
PairNodeLoop ==
    /\ \E r \in Runs :
         /\ run[r].pc = "node"
         /\ run' = [run EXCEPT ![r] =
                      IF @.node_idx < Len(@.nodes)
                      THEN [@ EXCEPT !.chunks = SplitText(run[r].nodes[run[r].node_idx + 1].content),
                                     !.chunk_idx = 0,
                                     !.pc = "chunk"]
                      ELSE [@ EXCEPT !.pc = "done"]]
    /\ UNCHANGED <<pstore, pstore0, porder>>
    /\ UNCHANGED <<ivars, qvars, pvars, avars>>

\* create_embedding(chunk) and vectors.append(...), up to the batch test.
PairEmbedChunk ==
    /\ \E r \in Runs :
         /\ run[r].pc = "chunk"
         /\ run[r].chunk_idx < Len(run[r].chunks)
         /\ LET me == run[r]
                node == me.nodes[me.node_idx + 1]
                chunk == me.chunks[me.chunk_idx + 1]
            IN  \E resp \in RunEmbedResponses(Slice(node.content, chunk), "passage") :
                  LET emb == CreateEmbedding(resp)
                      vecs == Append(me.vectors,
                                     MakeVector(me.pdf_id, me.node_idx, me.chunk_idx,
                                                node, chunk, emb.val))
                  IN  run' = [run EXCEPT ![r] =
                                IF emb.exc # NoError
                                THEN [me EXCEPT !.pc = IndexHandler(emb.exc).pc,
                                                !.raised = IndexHandler(emb.exc).raised]
                                ELSE IF BatchFull(vecs)
                                THEN [me EXCEPT !.vectors = vecs, !.pc = "upsert_batch"]
                                ELSE [me EXCEPT !.vectors = vecs,
                                                !.chunk_idx = me.chunk_idx + 1]]
    /\ UNCHANGED <<pstore, pstore0, porder>>
    /\ UNCHANGED <<ivars, qvars, pvars, avars>>

\* self.index.upsert(vectors=vectors); vectors = []  (the batch of 50)
PairUpsertBatch ==
    /\ \E r \in Runs :
         /\ run[r].pc = "upsert_batch"
         /\ porder' = Append(porder, r)
         /\ \/ /\ pstore' = Upsert(pstore, run[r].vectors)
               /\ run' = [run EXCEPT ![r] =
                            [@ EXCEPT !.written = @ \cup AsSet(run[r].vectors),
                                      !.vectors = AfterBatch(run[r].vectors),
                                      !.pc = "sleep"]]
            \/ \E e \in UpsertErrors, k \in {0, Len(run[r].vectors)} :
               /\ pstore' = Upsert(pstore, Prefix(run[r].vectors, k))
               /\ run' = [run EXCEPT ![r] =
                            [@ EXCEPT !.written = @ \cup AsSet(Prefix(run[r].vectors, k)),
                                      !.pc = IndexHandler(e).pc,
                                      !.raised = IndexHandler(e).raised]]
    /\ UNCHANGED pstore0
    /\ UNCHANGED <<ivars, qvars, pvars, avars>>

\* time.sleep(0.5)
PairSleep ==
    /\ \E r \in Runs :
         /\ run[r].pc = "sleep"
         /\ run' = [run EXCEPT ![r] = [@ EXCEPT !.pc = "chunk",
                                                !.chunk_idx = @ + 1]]
    /\ UNCHANGED <<pstore, pstore0, porder>>
    /\ UNCHANGED <<ivars, qvars, pvars, avars>>

\* The chunk loop is exhausted: if vectors: self.index.upsert(vectors=vectors)
PairUpsertRest ==
    /\ \E r \in Runs :
         /\ run[r].pc = "chunk"
         /\ run[r].chunk_idx = Len(run[r].chunks)
         /\ IF HasRest(run[r].vectors)
            THEN /\ porder' = Append(porder, r)
                 /\ \/ /\ pstore' = Upsert(pstore, run[r].vectors)
                       /\ run' = [run EXCEPT ![r] =
                                    [@ EXCEPT !.written = @ \cup AsSet(run[r].vectors),
                                              !.vectors = AfterRest(run[r].vectors),
                                              !.pc = "node",
                                              !.node_idx = @ + 1]]
                    \/ \E e \in UpsertErrors, k \in {0, Len(run[r].vectors)} :
                       /\ pstore' = Upsert(pstore, Prefix(run[r].vectors, k))
                       /\ run' = [run EXCEPT ![r] =
                                    [@ EXCEPT !.written =
                                                  @ \cup AsSet(Prefix(run[r].vectors, k)),
                                              !.pc = IndexHandler(e).pc,
                                              !.raised = IndexHandler(e).raised]]
            ELSE /\ run' = [run EXCEPT ![r] = [@ EXCEPT !.pc = "node",
                                                        !.node_idx = @ + 1]]
                 /\ UNCHANGED <<pstore, porder>>
    /\ UNCHANGED pstore0
    /\ UNCHANGED <<ivars, qvars, pvars, avars>>

PairNext ==
    \/ PairCall
    \/ PairNodeLoop
    \/ PairEmbedChunk
    \/ PairUpsertBatch
    \/ PairSleep
    \/ PairUpsertRest

----------------------------------------------------------------------------
\* The specifications: one per group of methods, the state of the other
\* groups at rest.

\* The index before the first run: empty, or holding an older record.
InitIndex ==
    /\ ipc = "idle"
    /\ nodes = <<>>
    /\ pdf_id = ""
    /\ node_idx = 0
    /\ chunks = <<>>
    /\ chunk_idx = 0
    /\ vectors = <<>>
    /\ store \in PriorStores
    /\ calls = <<>>
    /\ embedCalls = 0
    /\ fault = NoError
    /\ raised = NoExc
    /\ runNo = 0
    /\ firstRunIds = {}
    /\ qentry = "none"
    /\ qpc = "idle"
    /\ query = ""
    /\ top_k = 0
    /\ filter_condition = NoneVal
    /\ query_embedding = <<>>
    /\ matches = <<>>
    /\ search_results = PyNone
    /\ g_chunks = <<>>
    /\ completions = 0
    /\ gcalls = 0
    /\ qfault = NoError
    /\ qfailed = "none"
    /\ qraised = NoExc
    /\ result = PyNone
    /\ ppc = "down"
    /\ backend = {IndexName}
    /\ existing_indexes = {}
    /\ starts = 0
    /\ createRequests = 0
    /\ created = 0
    /\ praised = NoExc
    /\ apc = "idle"
    /\ folder_name = ""
    /\ question = ""
    /\ extracted_status = EmptyDict
    /\ current_report = AppNone
    /\ ask_result = AppNone
    /\ requests = <<>>
    /\ clicks = 0
    /\ extract_failed = FALSE
    /\ report_before = AppNone
    /\ run = [r \in Runs |-> IdleRun]
    /\ pstore = {}
    /\ pstore0 = {}
    /\ porder = <<>>

InitQuery ==
    /\ ipc = "idle"
    /\ nodes = <<>>
    /\ pdf_id = ""
    /\ node_idx = 0
    /\ chunks = <<>>
    /\ chunk_idx = 0
    /\ vectors = <<>>
    /\ store = {}
    /\ calls = <<>>
    /\ embedCalls = 0
    /\ fault = NoError
    /\ raised = NoExc
    /\ runNo = 0
    /\ firstRunIds = {}
    /\ qentry = "none"
    /\ qpc = "idle"
    /\ query = ""
    /\ top_k = 0
    /\ filter_condition = NoneVal
    /\ query_embedding = <<>>
    /\ matches = <<>>
    /\ search_results = PyNone
    /\ g_chunks = <<>>
    /\ completions = 0
    /\ gcalls = 0
    /\ qfault = NoError
    /\ qfailed = "none"
    /\ qraised = NoExc
    /\ result = PyNone
    /\ ppc = "down"
    /\ backend = {IndexName}
    /\ existing_indexes = {}
    /\ starts = 0
    /\ createRequests = 0
    /\ created = 0
    /\ praised = NoExc
    /\ apc = "idle"
    /\ folder_name = ""
    /\ question = ""
    /\ extracted_status = EmptyDict
    /\ current_report = AppNone
    /\ ask_result = AppNone
    /\ requests = <<>>
    /\ clicks = 0
    /\ extract_failed = FALSE
    /\ report_before = AppNone
    /\ run = [r \in Runs |-> IdleRun]
    /\ pstore = {}
    /\ pstore0 = {}
    /\ porder = <<>>

\* The backend before the first process start: any set of indexes.
InitProvision ==
    /\ ipc = "idle"
    /\ nodes = <<>>
    /\ pdf_id = ""
    /\ node_idx = 0
    /\ chunks = <<>>
    /\ chunk_idx = 0
    /\ vectors = <<>>
    /\ store = {}
    /\ calls = <<>>
    /\ embedCalls = 0
    /\ fault = NoError
    /\ raised = NoExc
    /\ runNo = 0
    /\ firstRunIds = {}
    /\ qentry = "none"
    /\ qpc = "idle"
    /\ query = ""
    /\ top_k = 0
    /\ filter_condition = NoneVal
    /\ query_embedding = <<>>
    /\ matches = <<>>
    /\ search_results = PyNone
    /\ g_chunks = <<>>
    /\ completions = 0
    /\ gcalls = 0
    /\ qfault = NoError
    /\ qfailed = "none"
    /\ qraised = NoExc
    /\ result = PyNone
    /\ ppc = "down"
    /\ backend \in SUBSET ({IndexName} \cup OtherIndexes)
    /\ existing_indexes = {}
    /\ starts = 0
    /\ createRequests = 0
    /\ created = 0
    /\ praised = NoExc
    /\ apc = "idle"
    /\ folder_name = ""
    /\ question = ""
    /\ extracted_status = EmptyDict
    /\ current_report = AppNone
    /\ ask_result = AppNone
    /\ requests = <<>>
    /\ clicks = 0
    /\ extract_failed = FALSE
    /\ report_before = AppNone
    /\ run = [r \in Runs |-> IdleRun]
    /\ pstore = {}
    /\ pstore0 = {}
    /\ porder = <<>>

SpecIndex == InitIndex /\ [][IndexNext]_vars

SpecQuery == InitQuery /\ [][QueryNext]_vars

SpecProvision == InitProvision /\ [][ProvisionNext]_vars

\* The session of the page before the first click: init_session_state.
InitApp ==
    /\ ipc = "idle"
    /\ nodes = <<>>
    /\ pdf_id = ""
    /\ node_idx = 0
    /\ chunks = <<>>
    /\ chunk_idx = 0
    /\ vectors = <<>>
    /\ store = {}
    /\ calls = <<>>
    /\ embedCalls = 0
    /\ fault = NoError
    /\ raised = NoExc
    /\ runNo = 0
    /\ firstRunIds = {}
    /\ qentry = "none"
    /\ qpc = "idle"
    /\ query = ""
    /\ top_k = 0
    /\ filter_condition = NoneVal
    /\ query_embedding = <<>>
    /\ matches = <<>>
    /\ search_results = PyNone
    /\ g_chunks = <<>>
    /\ completions = 0
    /\ gcalls = 0
    /\ qfault = NoError
    /\ qfailed = "none"
    /\ qraised = NoExc
    /\ result = PyNone
    /\ ppc = "down"
    /\ backend = {IndexName}
    /\ existing_indexes = {}
    /\ starts = 0
    /\ createRequests = 0
    /\ created = 0
    /\ praised = NoExc
    /\ apc = "idle"
    /\ folder_name = ""
    /\ question = ""
    /\ extracted_status = EmptyDict
    /\ current_report = AppNone
    /\ ask_result = AppNone
    /\ requests = <<>>
    /\ clicks = 0
    /\ extract_failed = FALSE
    /\ report_before = AppNone
    /\ run = [r \in Runs |-> IdleRun]
    /\ pstore = {}
    /\ pstore0 = {}
    /\ porder = <<>>

\* The index before the two calls: empty, or holding an older record.
InitPair ==
    /\ ipc = "idle"
    /\ nodes = <<>>
    /\ pdf_id = ""
    /\ node_idx = 0
    /\ chunks = <<>>
    /\ chunk_idx = 0
    /\ vectors = <<>>
    /\ store = {}
    /\ calls = <<>>
    /\ embedCalls = 0
    /\ fault = NoError
    /\ raised = NoExc
    /\ runNo = 0
    /\ firstRunIds = {}
    /\ qentry = "none"
    /\ qpc = "idle"
    /\ query = ""
    /\ top_k = 0
    /\ filter_condition = NoneVal
    /\ query_embedding = <<>>
    /\ matches = <<>>
    /\ search_results = PyNone
    /\ g_chunks = <<>>
    /\ completions = 0
    /\ gcalls = 0
    /\ qfault = NoError
    /\ qfailed = "none"
    /\ qraised = NoExc
    /\ result = PyNone
    /\ ppc = "down"
    /\ backend = {IndexName}
    /\ existing_indexes = {}
    /\ starts = 0
    /\ createRequests = 0
    /\ created = 0
    /\ praised = NoExc
    /\ apc = "idle"
    /\ folder_name = ""
    /\ question = ""
    /\ extracted_status = EmptyDict
    /\ current_report = AppNone
    /\ ask_result = AppNone
    /\ requests = <<>>
    /\ clicks = 0
    /\ extract_failed = FALSE
    /\ report_before = AppNone
    /\ run = [r \in Runs |-> IdleRun]
    /\ pstore \in PriorStores
    /\ pstore0 = pstore
    /\ porder = <<>>

SpecApp == InitApp /\ [][AppNext]_vars

SpecPair == InitPair /\ [][PairNext]_vars

----------------------------------------------------------------------------
\* Quantities the properties of an indexing run are stated in.

RECURSIVE SumChunks(_, _)
SumChunks(ns, k) ==
    IF k = 0 THEN 0 ELSE SumChunks(ns, k - 1) + NumChunks(ns[k].content)

\* R: the number of chunks of all nodes of the run.
TotalRecords == SumChunks(nodes, Len(nodes))

IsUpsert(e) == e.op = "upsert"

UpsertCalls == SelectSeq(calls, IsUpsert)

CeilDiv(a, b) == (a + b - 1) \div b

\* The (node_index, chunk_index) pairs of the run's input.
RunPairs ==
    UNION { {<<n, c>> : c \in 0..(NumChunks(nodes[n + 1].content) - 1)} :
            n \in 0..(Len(nodes) - 1) }

RecordsOf(st, pid, n, c) ==
    {r \in st : /\ r.metadata.pdf_id = pid
                /\ r.metadata.node_index = n
                /\ r.metadata.chunk_index = c}

StoreIds == {r.id : r \in store}

----------------------------------------------------------------------------
\* C1: a run that completes issues exactly ceil(R / 50) upsert calls, and the
\* last of them carries R mod 50 records, or 50 when R is a positive multiple
\* of 50.
C1_BatchBoundary ==
    ipc = "done" =>
        /\ Len(UpsertCalls) = CeilDiv(TotalRecords, BatchSize)
        /\ TotalRecords > 0 =>
              UpsertCalls[Len(UpsertCalls)].n =
                  IF TotalRecords % BatchSize = 0 THEN BatchSize
                  ELSE TotalRecords % BatchSize

\* C2: after the same node list was indexed again under the same pdf_id, the
\* index holds exactly one record for every (pdf_id, node_index, chunk_index)
\* of the input, under the id made of that triple, and the ids and the number
\* of records in the index are those the first run left.
C2_ReindexIdempotent ==
    (ipc = "done" /\ runNo >= 2) =>
        /\ \A p \in RunPairs :
              /\ Cardinality(RecordsOf(store, pdf_id, p[1], p[2])) = 1
              /\ \A r \in RecordsOf(store, pdf_id, p[1], p[2]) :
                    r.id = VectorId(pdf_id, p[1], p[2])
        /\ StoreIds = firstRunIds
        /\ Cardinality(store) = Cardinality(firstRunIds)

C2_Witness ==
    /\ ipc = "done"
    /\ runNo = 2
    /\ Len(nodes) = 2
    /\ TotalRecords > BatchSize
    /\ Cardinality(store) >= TotalRecords

\* C5: once an embedding call or an upsert call of a run has failed, the run
\* has raised that failure and has not returned, no further embedding call,
\* upsert call or sleep is made, and in the failing step and after it no id
\* leaves the index and no record this run wrote changes.
C5_FailureAborts ==
    /\ [](fault # NoError => (ipc = "failed" /\ raised.type = fault))
    /\ [][fault # NoError =>
             /\ ipc' = "failed"
             /\ embedCalls' = embedCalls
             /\ calls' = calls
             /\ store' = store]_vars
    /\ [][fault' # NoError =>
             \A r \in store :
                \E q \in store' : q.id = r.id /\ (r # StaleRecord => q = r)]_vars

C5_Witness ==
    /\ ipc = "failed"
    /\ fault \in UpsertErrors
    /\ Len(UpsertCalls) >= 2
    /\ Cardinality(store) >= BatchSize

\* C6: the exception a failed run raises names the place of the failure: the
\* node index and the chunk index for a failed embedding call, the batch (its
\* index, or its first and last record id) for a failed upsert call.
C6_ErrorNamesPlace ==
    ipc = "failed" =>
        IF fault \in UpsertErrors
        THEN \/ ("batch_index=" \o ToString(Len(UpsertCalls) - 1)) \in raised.context
             \/ {"first_id=" \o vectors[1].id,
                 "last_id=" \o vectors[Len(vectors)].id} \subseteq raised.context
        ELSE {"node_index=" \o ToString(node_idx),
              "chunk_index=" \o ToString(chunk_idx)} \subseteq raised.context

----------------------------------------------------------------------------
\* Quantities the properties of the query methods are stated in.

SearchReturned == qentry = "search_similar" /\ qpc = "returned"

HasText(m) == "text" \in DOMAIN m.metadata

IsMalformed(m) == HasText(m) /\ m.metadata.text.form = "malformed"

NonIncreasing(xs) == \A i \in 1..(Len(xs) - 1) : xs[i].score >= xs[i + 1].score

\* C3: a search that returns, returns at most top_k results, one per match of
\* the store and in the order of the matches (score, pdf_id and chunk_index
\* of result i are those of match i), so its scores are non-increasing
\* whenever those of the matches are.
C3_TopKAndOrder ==
    SearchReturned =>
        /\ result.py = "list"
        /\ Len(result.val) <= top_k
        /\ Len(result.val) = Len(matches)
        /\ \A i \in 1..Len(matches) :
              /\ result.val[i].score = matches[i].score
              /\ result.val[i].pdf_id = matches[i].metadata.pdf_id
              /\ result.val[i].chunk_index = matches[i].metadata.chunk_index
        /\ NonIncreasing(matches) => NonIncreasing(result.val)

C3_Witness ==
    /\ SearchReturned
    /\ top_k = 2
    /\ Len(result.val) = 2
    /\ matches[1].score > matches[2].score
    /\ matches[1].metadata.chunk_index # matches[2].metadata.chunk_index

\* C4: a match whose metadata text is no JSON document does not fail the
\* search, and in the list returned it stands at the position of the match,
\* with the score of the match, pdf_id and chunk_index of the metadata, empty
\* page_num and image_path, and the stored text itself as content.
C4_MalformedFallback ==
    /\ SearchReturned =>
          \A i \in 1..Len(matches) :
             IsMalformed(matches[i]) =>
                /\ i <= Len(result.val)
                /\ result.val[i] =
                      [score |-> matches[i].score,
                       pdf_id |-> matches[i].metadata.pdf_id,
                       chunk_index |-> matches[i].metadata.chunk_index,
                       page_num |-> "",
                       image_path |-> "",
                       content |-> matches[i].metadata.text.lit]
    /\ (qentry = "search_similar" /\ qpc = "failed" /\ qfault = NoError) =>
          \E i \in 1..Len(matches) :
             HasText(matches[i]) /\ matches[i].metadata.text.form \notin {"object", "malformed"}

C4_Witness ==
    /\ SearchReturned
    /\ Len(matches) = 2
    /\ ~IsMalformed(matches[1])
    /\ IsMalformed(matches[2])
    /\ result.val[2].content = MalformedStr.lit

\* C7: when the embedding call or the store query of a search has failed, the
\* search has raised that failure and has returned nothing; a search that
\* returns has seen no failure and raises nothing; and when the store has
\* answered with zero matches the search returns the empty list.
C7_FailureIsNotEmpty ==
    qentry = "search_similar" =>
        /\ qfault # NoError =>
              (qpc = "failed" /\ qraised.type = qfault /\ result.py = "None")
        /\ qpc = "returned" =>
              (qfault = NoError /\ qraised = NoExc /\ result.py = "list")
        /\ (qpc \in {"returned", "failed"} /\ qfault = NoError /\ matches = <<>>) =>
              (qpc = "returned" /\ result.py = "list" /\ result.val = <<>>)

C7_Witness ==
    /\ SearchReturned
    /\ matches = <<>>
    /\ result.py = "list"
    /\ result.val = <<>>

\* C8: search_and_answer returns a dictionary whose total_chunks is the
\* number of its supporting_chunks and the number of results of the search,
\* at most top_k, and it fails only when search_similar or
\* generate_answer_from_chunks fails.
C8_AnswerReturns ==
    qentry = "search_and_answer" =>
        /\ qpc = "returned" =>
              /\ result.py = "dict"
              /\ result.val.total_chunks = Len(result.val.supporting_chunks)
              /\ result.val.total_chunks = Len(search_results.val)
              /\ result.val.total_chunks <= top_k
        /\ qpc = "failed" =>
              qfailed \in {"search_similar", "generate_answer_from_chunks"}

\* C9: generate_answer_from_chunks called with no chunks either returns the
\* explicit insufficient-context answer or fails; it does not return the text
\* of the completion as an ordinary answer.
C9_NoContextPolicy ==
    (qentry = "generate_answer_from_chunks" /\ g_chunks = <<>>) =>
        /\ qpc = "returned" => result.val = InsufficientContext
        /\ qpc = "failed" => qraised.type # NoError

\* C10: over the process starts, a create_index request is issued only when
\* the index is missing from the list of that call (and from the backend), so
\* the backend creates it at most once; a call that finds the index in the
\* list issues no request and succeeds.
C10_EnsureIndexIdempotent ==
    /\ [](created <= 1)
    /\ [][createRequests' # createRequests =>
             (IndexName \notin existing_indexes /\ IndexName \notin backend)]_vars
    /\ [][(ppc = "listed" /\ IndexName \in existing_indexes /\ ppc' # ppc) =>
             (ppc' = "up" /\ createRequests' = createRequests /\ praised' = NoExc)]_vars

C10_Witness ==
    /\ ppc = "up"
    /\ starts >= 2
    /\ created = 1
    /\ createRequests = 1
    /\ IndexName \in existing_indexes

----------------------------------------------------------------------------
\* C11: create_embedding hands no vector to its caller when the remote call
\* raises, when the response has no entry and when the vector of the response
\* is empty: the query embedding search_similar goes on with is never empty.
C11_EmbedFailsOnBadResponse ==
    (qentry = "search_similar" /\ qpc = "query") => query_embedding # <<>>

----------------------------------------------------------------------------
\* The result search_similar builds for a stored record r that the store
\* returns with score sc, and the result the input of the run calls for.

Reconstructed(r, sc) == FormatMatch([score |-> sc, metadata |-> r.metadata])

EmptyIfNone(v) == IF v = NoneVal THEN "" ELSE v

ExpectedResult(r, sc) ==
    LET node == nodes[r.metadata.node_index + 1]
        chunk == SplitText(node.content)[r.metadata.chunk_index + 1]
    IN  [score |-> sc,
         pdf_id |-> pdf_id,
         chunk_index |-> r.metadata.chunk_index,
         page_num |-> EmptyIfNone(node.page_num),
         image_path |-> EmptyIfNone(node.image_path),
         content |-> Slice(node.content, chunk)]

RoundTrips(r) ==
    /\ Reconstructed(r, 1).exc = NoError
    /\ Reconstructed(r, 1).val = ExpectedResult(r, 1)

\* The records of the index that the runs of this pdf_id wrote.
RunRecords == {r \in store : r # StaleRecord /\ r.metadata.pdf_id = pdf_id}

\* C12: from the metadata of a record that process_nodes_and_store made for
\* pdf_id d, node n and chunk c, search_similar rebuilds pdf_id d, chunk_index
\* c, the chunk text as content and the node's page_num and image_path, an
\* absent one as "".  Every record is checked when it enters the buffer, and
\* every record of the index when the run has returned.
C12_RoundTrip ==
    /\ (ipc \in {"chunk", "upsert_batch"} /\ vectors # <<>>) =>
          RoundTrips(vectors[Len(vectors)])
    /\ ipc = "done" => \A r \in RunRecords : RoundTrips(r)

C12_Witness ==
    /\ ipc = "done"
    /\ Cardinality(RunRecords) > BatchSize
    /\ \E r \in RunRecords :
          /\ nodes[r.metadata.node_index + 1].page_num = NoneVal
          /\ Reconstructed(r, 1).val.page_num = ""
    /\ \E r \in RunRecords :
          /\ nodes[r.metadata.node_index + 1].image_path # NoneVal
          /\ Reconstructed(r, 1).val.image_path = nodes[r.metadata.node_index + 1].image_path
          /\ r.metadata.chunk_index = 2

----------------------------------------------------------------------------
\* C14: in every state of a run the buffer holds at most 50 records, and
\* every upsert call of the run carried at least 1 and at most 50 records.
C14_BoundedBatches ==
    /\ Len(vectors) <= BatchSize
    /\ \A i \in 1..Len(UpsertCalls) :
          UpsertCalls[i].n >= 1 /\ UpsertCalls[i].n <= BatchSize

C14_Witness ==
    /\ ipc = "done"
    /\ \E i \in 1..Len(UpsertCalls) : UpsertCalls[i].n = BatchSize
    /\ \E i \in 1..Len(UpsertCalls) : UpsertCalls[i].n = 1
    /\ Len(vectors) >= 1

\* The single node of 2400 characters without separators.
IsNode2400 == Len(nodes) = 1 /\ nodes[1].content = 2400

\* C15: a run over that single node, with chunk size 1000 and overlap 50,
\* makes 3 chunks of at most 1000 characters, each starting 50 characters
\* before the end of the one before it and the three covering the text, and
\* issues one upsert call, of 3 records, with the ids of chunks 0, 1 and 2.
C15_Scenario2400 ==
    (IsNode2400 /\ ipc = "done") =>
        /\ Len(chunks) = 3
        /\ \A k \in 1..3 : chunks[k].len >= 1 /\ chunks[k].len <= ChunkSize
        /\ chunks[1].off = 0
        /\ \A k \in 1..2 : chunks[k].off + chunks[k].len - chunks[k + 1].off = ChunkOverlap
        /\ chunks[3].off + chunks[3].len = 2400
        /\ embedCalls = 3
        /\ Len(UpsertCalls) = 1
        /\ UpsertCalls[1].n = 3
        /\ UpsertCalls[1].ok
        /\ [i \in 1..3 |-> vectors[i].id] =
              <<VectorId(pdf_id, 0, 0), VectorId(pdf_id, 0, 1), VectorId(pdf_id, 0, 2)>>
        /\ {r.id : r \in RunRecords} =
              {VectorId(pdf_id, 0, 0), VectorId(pdf_id, 0, 1), VectorId(pdf_id, 0, 2)}

C15_Witness ==
    /\ IsNode2400
    /\ ipc = "done"
    /\ runNo = 1
    /\ Len(UpsertCalls) = 1
    /\ Cardinality(RunRecords) = 3

\* C16: a run never issues an upsert call directly after another upsert
\* call: a sleep lies between any two successive upsert calls.
C16_CooldownBetweenUpserts ==
    \A i \in 1..(Len(calls) - 1) :
        calls[i].op = "upsert" => calls[i + 1].op = "sleep"

RECURSIVE SumSizes(_, _)
SumSizes(us, k) == IF k = 0 THEN 0 ELSE SumSizes(us, k - 1) + us[k].n

\* C17: the buffer is upserted only when it holds 50 records, and once more
\* for the remainder after the last node, so that the upsert calls of a run
\* that has returned carry each of its R records exactly once.
C17_EachRecordOnce ==
    ipc = "done" =>
        /\ \A i \in 1..(Len(UpsertCalls) - 1) : UpsertCalls[i].n = BatchSize
        /\ SumSizes(UpsertCalls, Len(UpsertCalls)) = TotalRecords

----------------------------------------------------------------------------
AllHaveText(cs) == \A i \in 1..Len(cs) : HasText(cs[i])

C19_ShapesNeverFailSearch ==
    (qentry = "search_similar" /\ qpc \in {"returned", "failed"} /\ qfault = NoError) =>
        /\ qpc = "returned"
        /\ Len(result.val) = Len(matches)
        /\ \A i \in 1..Len(matches) : result.val[i].score = matches[i].score

----------------------------------------------------------------------------
Ids(S) == {v.id : v \in S}

\* The records process_nodes_and_store(ns, pid) builds.
AllVectors(ns, pid) ==
    UNION { { MakeVector(pid, n, c, ns[n + 1], SplitText(ns[n + 1].content)[c + 1],
                         VectorOf(Slice(ns[n + 1].content,
                                        SplitText(ns[n + 1].content)[c + 1]),
                                  "passage")) :
              c \in 0..(NumChunks(ns[n + 1].content) - 1) } :
            n \in 0..(Len(ns) - 1) }

\* The index after call r has run alone, to its end, on the index st.
StoreAfterRun(st, r) ==
    LET new == AllVectors(run[r].nodes, run[r].pdf_id)
    IN  {x \in st : x.id \notin Ids(new)} \cup new

BothDone == \A r \in Runs : run[r].pc = "done"

\* C13: two calls for two different documents, their steps interleaved in any
\* order, write disjoint sets of record ids; no record a call has written is
\* replaced or removed by the other; a call that runs alone leaves the index
\* as StoreAfterRun says, and when both calls have returned the index holds
\* what running the one after the other, in either order, leaves.
C13_InterleavingSafe ==
    /\ Ids(run[1].written) \cap Ids(run[2].written) = {}
    /\ \A r \in Runs : run[r].written \subseteq pstore
    /\ \A r \in Runs : (run[r].pc = "done" /\ run[Other(r)].pc = "idle") =>
           pstore = StoreAfterRun(pstore0, r)
    /\ BothDone =>
           /\ pstore = StoreAfterRun(StoreAfterRun(pstore0, 1), 2)
           /\ pstore = StoreAfterRun(StoreAfterRun(pstore0, 2), 1)

C13_Witness ==
    /\ BothDone
    /\ porder = <<1, 2, 1, 2>>
    /\ \A r \in Runs : Cardinality(run[r].written) = BatchSize + 1
    /\ pstore0 = {StaleRecord}

----------------------------------------------------------------------------
Succeeded(e) ==
    e.op = "extract" /\ ~e.resp.raises /\ e.resp.status_code = 200
                     /\ e.resp.status = "success"

\* C20: a query request for a document follows a test-extract request for
\* that document that succeeded; after a failed test-extract request the next
\* request for the document is a test-extract request again; and when the
\* extraction of a click has failed, no query request follows it, ask_question
\* returns None, the document is not marked as extracted and current_report
\* is what it was before the click.
C20_QueryOnlyAfterExtraction ==
    /\ \A i \in 1..Len(requests) :
         requests[i].op = "query" =>
             \E j \in 1..(i - 1) :
                 Succeeded(requests[j]) /\ requests[j].doc = requests[i].doc
    /\ \A i \in 1..Len(requests) :
         (requests[i].op = "extract" /\ ~Succeeded(requests[i])) =>
             \A k \in (i + 1)..Len(requests) :
                 (/\ requests[k].doc = requests[i].doc
                  /\ \A m \in (i + 1)..(k - 1) : requests[m].doc # requests[i].doc)
                     => requests[k].op = "extract"
    /\ (extract_failed /\ apc \in {"show", "idle"}) =>
         /\ requests[Len(requests)].op = "extract"
         /\ requests[Len(requests)].doc = folder_name
         /\ ask_result.py = "None"
         /\ ~StatusGet(extracted_status, folder_name)
         /\ current_report = report_before

C20_Witness ==
    /\ apc = "idle"
    /\ extract_failed
    /\ current_report.py = "dict"
    /\ Len(requests) = 4
    /\ ~Succeeded(requests[1])
    /\ Succeeded(requests[2])
    /\ requests[3].op = "query"
    /\ requests[1].doc = requests[2].doc
    /\ requests[2].doc = requests[3].doc
    /\ requests[4].doc # requests[3].doc

----------------------------------------------------------------------------
\* The ids of the run's records, in (node_index, chunk_index) order.
NodeIds(pid, n, k) == [c \in 1..k |-> VectorId(pid, n, c - 1)]

RECURSIVE IdsUpTo(_, _, _)
IdsUpTo(ns, pid, m) ==
    IF m = 0 THEN <<>>
    ELSE IdsUpTo(ns, pid, m - 1) \o NodeIds(pid, m - 1, NumChunks(ns[m].content))

RunIds == IdsUpTo(nodes, pdf_id, Len(nodes))

\* The place of an id in ids, 0 if it is none of them.
Pos(ids, id) ==
    IF \E i \in 1..Len(ids) : ids[i] = id
    THEN CHOOSE i \in 1..Len(ids) : ids[i] = id /\ \A j \in 1..(i - 1) : ids[j] # id
    ELSE 0

\* The place of a record of the run, by its node_index and chunk_index.
PosOf(v) == SumChunks(nodes, v.metadata.node_index) + v.metadata.chunk_index + 1

\* The number of leading records of the run that the first k upsert calls
\* have sent.
Sent(ids, ups, k) ==
    LET S == {Pos(ids, ups[i].last) : i \in 1..k}
    IN  IF S = {} THEN 0 ELSE CHOOSE m \in S : \A x \in S : x <= m

\* C21: at every point of a run, the end left by a failure included, the
\* buffer holds consecutive records of the run and starts no later than the
\* first record not yet sent; every upsert call carries consecutive records
\* and starts no later than the first record the calls before it had not
\* sent, so the records sent are a prefix of the run's records; and in a
\* first run the index holds no record of the run beyond that prefix, so a
\* record buffered but not sent when the run failed is never written.
C21_SentIsPrefix ==
    LET ids == RunIds
        ups == UpsertCalls
        sent == Sent(ids, ups, Len(ups))
    IN  /\ \A k \in 1..Len(vectors) :
              /\ PosOf(vectors[k]) \in 1..Len(ids)
              /\ ids[PosOf(vectors[k])] = vectors[k].id
        /\ \A k \in 1..(Len(vectors) - 1) : PosOf(vectors[k + 1]) = PosOf(vectors[k]) + 1
        /\ vectors # <<>> => PosOf(vectors[1]) <= sent + 1
        /\ \A i \in 1..Len(ups) :
              LET f == Pos(ids, ups[i].first)
                  l == Pos(ids, ups[i].last)
              IN  /\ f >= 1
                  /\ l - f + 1 = ups[i].n
                  /\ f <= Sent(ids, ups, i - 1) + 1
        /\ runNo = 1 =>
              \A r \in store : r # StaleRecord =>
                  /\ r.metadata.pdf_id = pdf_id
                  /\ PosOf(r) <= sent

C21_Witness ==
    /\ ipc = "failed"
    /\ runNo = 1
    /\ fault = "APIConnectionError"
    /\ Sent(RunIds, UpsertCalls, Len(UpsertCalls)) > BatchSize
    /\ vectors # <<>>
    /\ PosOf(vectors[Len(vectors)]) > Sent(RunIds, UpsertCalls, Len(UpsertCalls))
    /\ StaleRecord \in store

\* C22: when a run has returned without error, every record of the input is
\* carried by an upsert call that succeeded and is in the index, every record
\* in the buffer was sent, and one embedding call was made per chunk.
C22_AllSentAtReturn ==
    ipc = "done" =>
        LET ids == RunIds
            ups == UpsertCalls
        IN  /\ Len(ids) = TotalRecords
            /\ \A p \in 1..Len(ids) :
                  \E i \in 1..Len(ups) :
                      /\ ups[i].ok
                      /\ Pos(ids, ups[i].first) <= p
                      /\ p <= Pos(ids, ups[i].last)
            /\ \A k \in 1..Len(vectors) :
                  PosOf(vectors[k]) <= Sent(ids, ups, Len(ups))
            /\ \A pr \in RunPairs : RecordsOf(store, pdf_id, pr[1], pr[2]) # {}
            /\ embedCalls = TotalRecords
            /\ raised = NoExc

C22_Witness ==
    /\ ipc = "done"
    /\ Len(nodes) = 2
    /\ nodes[1].content = 0
    /\ TotalRecords = BatchSize + 1
    /\ embedCalls = BatchSize + 1
    /\ runNo = 1

====
